---- MODULE Spec2Model ----
(***************************************************************************)
(* A model of CursorIterator (cursor_iterator.go): an iterator that opens  *)
(* a transaction, declares a server-side cursor and fetches rows in        *)
(* batches of the capacity of the caller's slice.                          *)
(*                                                                         *)
(* The iterator's fields are the variables valuesPos, valuesMaxPos, err    *)
(* and tx.  The database (connector, transaction, row sequence) is the     *)
(* environment: every round trip may succeed or fail, and a FETCH may      *)
(* deliver any number of rows up to batchSize + MaxExtra.  The variable    *)
(* clean records whether the database has been failure-free and honest so  *)
(* far, so that the claims about a failure-free database are stated with   *)
(* clean as their precondition.  Every public method holds iter.mu for its *)
(* whole body, so in Spec each method is one atomic action.                *)
(*                                                                         *)
(* Further specifications look at one aspect each, from the same           *)
(* definitions of the iterator's code:                                     *)
(*   SpecBeginRetry  a database whose only failure is that of Begin;       *)
(*   SpecRows        a database that delivers batches of any size;         *)
(*   SpecNew         the call of NewCursorIterator on any arguments;       *)
(*   SpecDeadline    round trips that take time, under their contexts;     *)
(*   SpecLock        several callers, the mutex and the steps under it;    *)
(*   SpecCloseTwice  the callers of Spec, closing more than once.          *)
(***************************************************************************)
EXTENDS Integers, Sequences, FiniteSets, TLC

\* ------------------------------------------------------------------ bounds
MaxBatch == 3       \* largest capacity of the values slice
MaxRows  == 3       \* largest number of rows R the query selects
MaxExtra == 1       \* rows beyond batchSize a misbehaving FETCH may deliver
MaxNext  == 5       \* Next() calls in one run
MaxClose == 1       \* Close() calls in one run
\* The largest capacity where the sizes of successive batches are compared:
\* the smallest with room for a batch of one row and a later batch that is
\* two rows longer and still short.
MaxRowsBatch == 4
ExecTime == 2       \* maxDatabaseExecutionTime, in ticks of the clock
MaxTime  == 6       \* no call starts and no idle tick passes after this time
NumCallers == 2     \* goroutines that call the iterator's methods
MaxCloseTwice == 2  \* Close() calls in one run where Close() is repeated

\* ------------------------------------------------------- program constants
NotStarted == -2    \* valuesPos set by NewCursorIterator
Exhausted  == -1    \* valuesPos set by close()
NilTx      == 0     \* iter.tx == nil

NoError        == "nil"
ErrBegin       == "unable to start transaction"
ErrDeclare     == "unable to declare cursor"
ErrTooManyRows == "database returned more rows than expected"
ErrScan        == "unable to scan into values element"
ErrFetchRows   == "unable to fetch rows"
ErrQuery       == "query error"       \* the unwrapped error of tx.Query
ErrRollback    == "rollback error"    \* the error of tx.Rollback

\* The errors of NewCursorIterator.
ErrConnectorNil == "connector cannot be nil"
ErrValuesNil    == "values cannot be nil"
ErrNotSlice     == "values must be a slice"
ErrCapacity     == "values must have a capacity bigger than 0"

VARIABLES
    batchSize,      \* cap(values), fixed by NewCursorIterator
    rowCount,       \* R, the rows the query selects
    valuesPos,      \* iter.valuesPos
    valuesMaxPos,   \* iter.valuesMaxPos
    err,            \* iter.err
    tx,             \* iter.tx: NilTx or the id of a transaction
    txs,            \* database: txs[id] is the state of transaction id
    rowsLeft,       \* database: rows the cursor of the newest DECLARE has left
    declares,       \* database: DECLARE statements executed
    fetches,        \* database: FETCH statements executed
    lastFetchRows,  \* database: rows the most recent FETCH delivered
    clean,          \* the database has been failure-free and honest so far
    panicked,       \* a Next() call ended in a run-time panic
    nextCalls,      \* Next() calls made
    closeCalls,     \* Close() calls made
    trueCount,      \* Next() calls that returned true
    lastCall,       \* the most recent public method called
    lastRet,        \* what it returned
    lastOps,        \* the database round trips it made, in order
    lastFailed,     \* it recorded a run-time failure of a database operation
    pre,            \* the iterator's fields when it was called
    connector,      \* NewCursorIterator: the connector argument
    values,         \* NewCursorIterator: the values argument
    newErr,         \* NewCursorIterator: the error it returned
    now,            \* the clock
    trips,          \* the round trips of the last call, with their times
    mu,             \* iter.mu: the caller that holds it, or 0
    pcs,            \* where each caller is in its call
    method,         \* the method each caller is calling
    pending,        \* Next(): what the caller's body has computed so far
    trueBy,         \* the callers whose Next() has returned true
    torn            \* a caller has read the fields in the middle of a refill

\* The arguments and the error result of the constructor.
ctorVars == << connector, values, newErr >>

\* The clock, and what the last call's round trips did on it.
timeVars == << now, trips >>

\* The mutex and the callers that contend for it.
lockVars == << mu, pcs, method, pending, trueBy, torn >>

\* The variables that only the specifications of single aspects change.
aux == << ctorVars, timeVars, lockVars >>

vars == << batchSize, rowCount, valuesPos, valuesMaxPos, err, tx, txs, rowsLeft,
           declares, fetches, lastFetchRows, clean, panicked, nextCalls,
           closeCalls, trueCount, lastCall, lastRet, lastOps, lastFailed, pre,
           aux >>

Min(a, b) == IF a < b THEN a ELSE b

\* The iterator's mutable fields as one value.
Iter == [valuesPos |-> valuesPos, valuesMaxPos |-> valuesMaxPos,
         err |-> err, tx |-> tx]

\* One database round trip, as recorded in lastOps.
Op(name, t, res, n) == [op |-> name, tx |-> t, res |-> res, rows |-> n]

\* --------------------------------------------------------- the environment
\* What one FETCH does: the error of tx.Query, the rows the row sequence
\* delivers, the 1-based row whose Scan fails (0: none), and rows.Err(),
\* which the code reads only after a loop in which no Scan failed.
FetchOutcomes(cap) ==
    { [qerr |-> q, n |-> 0, scanFail |-> 0, rerr |-> NoError] :
        q \in {"no_rows", ErrQuery} }
    \cup
    UNION { { [qerr |-> NoError, n |-> n, scanFail |-> f, rerr |-> NoError] :
                f \in 0..n }
            \cup { [qerr |-> NoError, n |-> n, scanFail |-> 0, rerr |-> r] :
                     r \in {"no_rows", "error"} } :
            n \in 0..(cap + MaxExtra) }

\* The outcome used for a round trip the call does not reach.
NoFetch == [qerr |-> NoError, n |-> 0, scanFail |-> 0, rerr |-> NoError]

\* What the database does during one call: connector.Begin, the DECLARE,
\* the FETCH and tx.Rollback.  Only the round trips a call from position pos
\* with filled rows can reach are varied: none when it is exhausted or rows
\* of the batch are unread, Begin and DECLARE only when it is not started.
Env(b, d, out, rb) == [beginOk |-> b, declOk |-> d, out |-> out, rbErr |-> rb]

FetchEnvs(cap) ==
    { Env(TRUE, TRUE, out, rb) :
        out \in FetchOutcomes(cap), rb \in {NoError, ErrRollback} }

Envs(pos, filled, cap) ==
    IF pos = -1 \/ (pos >= 0 /\ pos + 1 < filled)
    THEN { Env(TRUE, TRUE, NoFetch, NoError) }
    ELSE IF pos = -2
    THEN { Env(FALSE, TRUE, NoFetch, NoError) }
         \cup { Env(TRUE, FALSE, NoFetch, rb) : rb \in {NoError, ErrRollback} }
         \cup FetchEnvs(cap)
    ELSE FetchEnvs(cap)

\* A FETCH that behaves as a failure-free cursor with `left` rows left.
HonestFetch(out, cap, left) ==
    /\ out.qerr = NoError
    /\ out.rerr = NoError
    /\ out.scanFail = 0
    /\ out.n = Min(cap, left)

\* ------------------------------------------------------------ the iterator
\* The result of running a piece of the iterator's code: the fields after
\* it, the round trips it made, whether it panicked, and whether it recorded
\* a run-time failure of a database operation.
Res(it, ops, panic, failed) ==
    [it |-> it, ops |-> ops, panic |-> panic, failed |-> failed]

\* close() that returns early when the rollback fails, keeping the
\* transaction and the position.
closeKeepOnRollbackError(it, rbErr) ==
    IF it.tx = NilTx
    THEN [it EXCEPT !.err = NoError]
    ELSE IF rbErr # NoError
    THEN [it EXCEPT !.err = rbErr]
    ELSE [it EXCEPT !.err = rbErr, !.tx = NilTx, !.valuesPos = Exhausted]

\* close(): with no transaction it clears the error and returns; otherwise
\* it rolls back, keeps the rollback's result as the error, drops the
\* transaction and marks the iterator exhausted.
close(it, rbErr) ==
    IF it.tx = NilTx
    THEN [it EXCEPT !.err = NoError]
    ELSE [it EXCEPT !.err = rbErr, !.tx = NilTx, !.valuesPos = Exhausted]

\* The round trips close() makes.
closeOps(it, rbErr) ==
    IF it.tx = NilTx THEN << >> ELSE << Op("rollback", it.tx, rbErr, 0) >>

\* close() followed by iter.err = e.
closeWith(it, rbErr, e) == [close(it, rbErr) EXCEPT !.err = e]

\* The loop `for rows.Next()` of fetchNextRows, from row index i on: how it
\* ends and the index it ends at.
RECURSIVE ScanLoop(_, _, _, _)
ScanLoop(i, maxPos, cap, out) ==
    IF i >= out.n THEN [kind |-> "done", i |-> i]
    ELSE IF i > maxPos THEN [kind |-> "too_many", i |-> i]
    ELSE IF i >= cap THEN [kind |-> "panic", i |-> i]
    ELSE IF out.scanFail = i + 1 THEN [kind |-> "scan_error", i |-> i]
    ELSE ScanLoop(i + 1, maxPos, cap, out)

\* Refilled with valuesMaxPos kept as the last index, as the constructor sets it.
RefilledLastIndex(it, i) == [it EXCEPT !.valuesPos = 0, !.valuesMaxPos = i - 1]

\* The assignments that end a successful refill of i rows.
Refilled(it, i) == [it EXCEPT !.valuesPos = 0, !.valuesMaxPos = i]

\* fetchNextRows().
fetchNextRows(it, cap, out, rbErr) ==
    IF it.tx = NilTx
    THEN Res(it, << >>, TRUE, FALSE)
    ELSE
    LET scan  == ScanLoop(0, it.valuesMaxPos, cap, out)
        fetch == Op("fetch", it.tx, out.qerr,
                    IF out.qerr = NoError THEN out.n ELSE 0)
        rb    == closeOps(it, rbErr)
    IN  IF out.qerr # NoError
        THEN IF out.qerr = "no_rows"
             THEN Res(close(it, rbErr), << fetch >> \o rb, FALSE, FALSE)
             ELSE Res([it EXCEPT !.err = out.qerr], << fetch >>, FALSE, TRUE)
        ELSE IF scan.kind = "too_many"
        THEN Res(closeWith(it, rbErr, ErrTooManyRows), << fetch >> \o rb, FALSE, TRUE)
        ELSE IF scan.kind = "panic"
        THEN Res(it, << fetch >>, TRUE, FALSE)
        ELSE IF scan.kind = "scan_error"
        THEN Res(closeWith(it, rbErr, ErrScan), << fetch >> \o rb, FALSE, TRUE)
        ELSE IF out.rerr # NoError
        THEN IF out.rerr = "no_rows"
             THEN Res(close(it, rbErr), << fetch >> \o rb, FALSE, FALSE)
             ELSE Res(closeWith(it, rbErr, ErrFetchRows), << fetch >> \o rb, FALSE, TRUE)
        ELSE IF scan.i = 0
        THEN Res(close(it, rbErr), << fetch >> \o rb, FALSE, FALSE)
        ELSE Res(Refilled(it, scan.i), << fetch >>, FALSE, FALSE)

\* IsExhausted that lets an iterator holding an error through, to retry.
IsExhaustedUnlessError(it) == it.valuesPos = Exhausted /\ it.err = NoError

\* `iter.valuesPos == -1`: the early exit of Next().
IsExhausted(it) == it.valuesPos = Exhausted

\* HasCached with the bound off by one: the position may reach valuesMaxPos.
HasCachedOffByOne(it) == it.valuesPos < it.valuesMaxPos

\* `iter.valuesPos+1 < iter.valuesMaxPos`: unread rows are left in the batch.
HasCached(it) == it.valuesPos + 1 < it.valuesMaxPos

\* `return iter.valuesPos == 0` after fetchNextRows().
FetchedRows(it) == it.valuesPos = 0

\* BeginFailed that also marks the iterator exhausted, as every other
\* failure path does.
BeginFailedExhausts(it) ==
    [it EXCEPT !.tx = NilTx, !.err = ErrBegin, !.valuesPos = Exhausted]

\* `iter.tx, iter.err = iter.connector.Begin(ctx)` when Begin fails, and the
\* wrapping of the error: the position is left as it is.
BeginFailed(it) == [it EXCEPT !.tx = NilTx, !.err = ErrBegin]

\* Next(): the result of the body and the value returned (ret).
NextResult(it, cap, env, newTx) ==
    LET withRet(r, b) == [it |-> r.it, ops |-> r.ops, panic |-> r.panic,
                          failed |-> r.failed, ret |-> b]
    IN
    IF IsExhausted(it)
    THEN withRet(Res(it, << >>, FALSE, FALSE), FALSE)
    ELSE IF it.valuesPos = NotStarted
    THEN IF ~env.beginOk
         THEN withRet(Res(BeginFailed(it),
                          << Op("begin", NilTx, ErrBegin, 0) >>, FALSE, TRUE), FALSE)
         ELSE LET begun == [it EXCEPT !.tx = newTx, !.err = NoError]
                  bOps  == << Op("begin", newTx, NoError, 0) >>
              IN  IF ~env.declOk
                  THEN withRet(Res(closeWith(begun, env.rbErr, ErrDeclare),
                                   bOps \o << Op("declare", newTx, ErrDeclare, 0) >>
                                        \o closeOps(begun, env.rbErr),
                                   FALSE, TRUE), FALSE)
                  ELSE LET f == fetchNextRows(begun, cap, env.out, env.rbErr)
                       IN  withRet(Res(f.it,
                                       bOps \o << Op("declare", newTx, NoError, 0) >> \o f.ops,
                                       f.panic, f.failed),
                                   FetchedRows(f.it))
    ELSE IF HasCached(it)
    THEN withRet(Res([it EXCEPT !.valuesPos = it.valuesPos + 1], << >>, FALSE, FALSE), TRUE)
    ELSE LET f == fetchNextRows(it, cap, env.out, env.rbErr)
         IN  withRet(f, FetchedRows(f.it))

\* ------------------------------------------------------------ the database
\* The transactions after the round trips ops: a successful begin opens a
\* new one, a rollback ends the one it names.
RECURSIVE ApplyTxs(_, _)
ApplyTxs(ops, t) ==
    IF ops = << >> THEN t
    ELSE LET o == Head(ops)
             t2 == IF o.op = "begin" /\ o.res = NoError
                   THEN Append(t, "open")
                   ELSE IF o.op = "rollback"
                   THEN [t EXCEPT ![o.tx] = IF o.res = NoError THEN "rolled_back"
                                                               ELSE "rollback_failed"]
                   ELSE t
         IN  ApplyTxs(Tail(ops), t2)

\* The round trips of ops that are the statement `name`.
OpsOf(ops, name) == SelectSeq(ops, LAMBDA o : o.op = name)

\* The rows the cursor has left when a FETCH of the call runs: a DECLARE in
\* the same call opens a new cursor over all R rows.
LeftAtFetch(ops) ==
    IF \E i \in 1..Len(ops) : ops[i].op = "declare" /\ ops[i].res = NoError
    THEN rowCount ELSE rowsLeft

\* The rows the cursor has left after the round trips ops.
LeftAfter(ops) ==
    LET f == OpsOf(ops, "fetch")
        left == LeftAtFetch(ops)
    IN  IF f = << >> THEN left
        ELSE IF f[1].rows >= left THEN 0 ELSE left - f[1].rows

\* Every round trip of ops succeeded and its FETCH, if any, was honest.
CleanOps(ops, out, cap) ==
    /\ \A i \in 1..Len(ops) :
          /\ ops[i].op # "fetch" => ops[i].res = NoError
          /\ ops[i].op = "fetch" => HonestFetch(out, cap, LeftAtFetch(ops))

\* ------------------------------------------------------------- the actions
Callers == 1..NumCallers

\* No caller is inside a call.
NoCallers ==
    /\ mu = 0
    /\ pcs = [p \in Callers |-> "idle"]
    /\ method = [p \in Callers |-> "none"]
    /\ pending = [p \in Callers |-> << >>]
    /\ trueBy = {}
    /\ torn = FALSE

\* The values argument: what reflect reports of it.
Slice(len, cap) == [kind |-> "slice", len |-> len, cap |-> cap]

\* The state after a successful NewCursorIterator over a slice of capacity
\* up to maxBatch, and a query that selects rowCount rows.
InitOf(maxBatch) ==
    /\ batchSize \in 1..maxBatch
    /\ connector = "pool"
    /\ values = Slice(batchSize, batchSize)
    /\ newErr = NoError
    /\ now = 0
    /\ trips = << >>
    /\ NoCallers
    /\ rowCount \in 0..MaxRows
    /\ valuesPos = NotStarted
    /\ valuesMaxPos = batchSize - 1
    /\ err = NoError
    /\ tx = NilTx
    /\ txs = << >>
    /\ rowsLeft = 0
    /\ declares = 0
    /\ fetches = 0
    /\ lastFetchRows = 0
    /\ clean = TRUE
    /\ panicked = FALSE
    /\ nextCalls = 0
    /\ closeCalls = 0
    /\ trueCount = 0
    /\ lastCall = "NewCursorIterator"
    /\ lastRet = NoError
    /\ lastOps = << >>
    /\ lastFailed = FALSE
    /\ pre = [valuesPos |-> NotStarted, valuesMaxPos |-> batchSize - 1,
              err |-> NoError, tx |-> NilTx]

Init == InitOf(MaxBatch)

\* The database's bookkeeping of the round trips ops.
Database(ops) ==
    /\ txs' = ApplyTxs(ops, txs)
    /\ rowsLeft' = LeftAfter(ops)
    /\ declares' = declares + Len(OpsOf(ops, "declare"))
    /\ fetches' = fetches + Len(OpsOf(ops, "fetch"))
    /\ lastFetchRows' = IF OpsOf(ops, "fetch") = << >> THEN lastFetchRows
                        ELSE OpsOf(ops, "fetch")[Len(OpsOf(ops, "fetch"))].rows

\* The iterator's fields become those of `it`.
Fields(it) ==
    /\ valuesPos' = it.valuesPos
    /\ valuesMaxPos' = it.valuesMaxPos
    /\ err' = it.err
    /\ tx' = it.tx

\* What one call of Next() does to the iterator, the database and the
\* caller while the database behaves as env.
NextBody(env) ==
    /\ ~panicked
    /\ nextCalls < MaxNext
    /\ LET r == NextResult(Iter, batchSize, env, Len(txs) + 1)
       IN  /\ Fields(r.it)
           /\ Database(r.ops)
           /\ clean' = (clean /\ ~r.panic /\ CleanOps(r.ops, env.out, batchSize))
           /\ panicked' = r.panic
           /\ lastRet' = IF r.panic THEN "panic" ELSE r.ret
           /\ trueCount' = IF ~r.panic /\ r.ret THEN trueCount + 1 ELSE trueCount
           /\ lastOps' = r.ops
           /\ lastFailed' = r.failed
    /\ nextCalls' = nextCalls + 1
    /\ lastCall' = "Next"
    /\ pre' = Iter
    /\ UNCHANGED << batchSize, rowCount, closeCalls >>

\* One call of Next() while the database behaves as env.
NextCall(env) == NextBody(env) /\ UNCHANGED aux

\* One call of Next().
Next_ == \E env \in Envs(valuesPos, valuesMaxPos, batchSize) : NextCall(env)

\* One call of Close(), the caller making at most max of them.
CloseUpTo(max) ==
    /\ ~panicked
    /\ closeCalls < max
    /\ \E rbErr \in {NoError, ErrRollback} :
          LET it == close(Iter, rbErr)
              ops == closeOps(Iter, rbErr)
          IN  /\ Fields(it)
              /\ Database(ops)
              /\ clean' = (clean /\ CleanOps(ops, NoFetch, batchSize))
              /\ lastRet' = it.err
              /\ lastOps' = ops
              /\ lastFailed' = (it.err # NoError)
    /\ closeCalls' = closeCalls + 1
    /\ lastCall' = "Close"
    /\ pre' = Iter
    /\ UNCHANGED << batchSize, rowCount, panicked, nextCalls, trueCount, aux >>

\* One call of Close().
Close == CloseUpTo(MaxClose)

\* One call of ValueIndex().
ValueIndex ==
    /\ ~panicked
    /\ lastCall' = "ValueIndex"
    /\ lastRet' = valuesPos
    /\ lastOps' = << >>
    /\ lastFailed' = FALSE
    /\ pre' = Iter
    /\ UNCHANGED << batchSize, rowCount, valuesPos, valuesMaxPos, err, tx, txs,
                    rowsLeft, declares, fetches, lastFetchRows, clean, panicked,
                    nextCalls, closeCalls, trueCount, aux >>

\* One call of Error().
Error ==
    /\ ~panicked
    /\ lastCall' = "Error"
    /\ lastRet' = err
    /\ lastOps' = << >>
    /\ lastFailed' = FALSE
    /\ pre' = Iter
    /\ UNCHANGED << batchSize, rowCount, valuesPos, valuesMaxPos, err, tx, txs,
                    rowsLeft, declares, fetches, lastFetchRows, clean, panicked,
                    nextCalls, closeCalls, trueCount, aux >>

Next == Next_ \/ Close \/ ValueIndex \/ Error

Spec == Init /\ [][Next]_vars

\* One call of Close() by a caller that may close again.
CloseAgain == CloseUpTo(MaxCloseTwice)

\* The callers of Spec, closing more than once.
NextCloseTwice == Next_ \/ CloseAgain \/ ValueIndex \/ Error

SpecCloseTwice == Init /\ [][NextCloseTwice]_vars

\* One call of Next() during which every round trip succeeds and the FETCH
\* delivers what the cursor has.
NextHonest ==
    \E env \in Envs(valuesPos, valuesMaxPos, batchSize) :
        /\ CleanOps(NextResult(Iter, batchSize, env, Len(txs) + 1).ops,
                    env.out, batchSize)
        /\ NextCall(env)

\* One call of Next() on a not-started iterator while connector.Begin fails.
NextBeginFails ==
    /\ valuesPos = NotStarted
    /\ NextCall(Env(FALSE, TRUE, NoFetch, NoError))

\* A caller that only iterates, over a database whose only failure is that
\* of starting a transaction.
NextBeginRetry == NextBeginFails \/ NextHonest \/ ValueIndex \/ Error

SpecBeginRetry == Init /\ [][NextBeginRetry]_vars

\* ------------------------------------------------------------ the deadlines
\* The longest a round trip may need: one tick more than it is allowed.
MaxDur == ExecTime + 1

\* The round trips one call can make.
TripNames == {"begin", "declare", "fetch", "rollback"}

\* The deadline of the context a round trip runs under, for a call that
\* started at callStart and reaches this round trip at start: Next() makes
\* one context before Begin and passes it to Begin and to the DECLARE;
\* fetchNextRows() and close() make their own right before their statement.
CtxDeadline(op, callStart, start) ==
    IF op \in {"begin", "declare"} THEN callStart + ExecTime
    ELSE start + ExecTime

\* A round trip that needs `need` ticks succeeds when it ends by its deadline.
TripOk(op, callStart, start, need) ==
    start + need <= CtxDeadline(op, callStart, start)

\* When the round trip returns: when it is done, or when its context expires.
TripEnd(op, callStart, start, need) ==
    IF TripOk(op, callStart, start, need) THEN start + need
    ELSE IF CtxDeadline(op, callStart, start) > start
    THEN CtxDeadline(op, callStart, start) ELSE start

\* The round trips ops of a call on the clock, each starting when the one
\* before it returned and needing need[its statement] ticks.
RECURSIVE Timeline(_, _, _, _)
Timeline(ops, callStart, start, need) ==
    IF ops = << >> THEN << >>
    ELSE LET o == Head(ops).op
         IN  << [op |-> o, start |-> start, need |-> need[o],
                 deadline |-> CtxDeadline(o, callStart, start),
                 ok |-> TripOk(o, callStart, start, need[o])] >>
             \o Timeline(Tail(ops), callStart,
                         TripEnd(o, callStart, start, need[o]), need)

\* What the database does during a call that starts at time t when its
\* statements need need[..] ticks and nothing but a deadline makes one fail:
\* a FETCH in time delivers what the cursor has.
TimedEnv(it, cap, left, t, need) ==
    LET bEnd  == TripEnd("begin", t, t, need["begin"])
        dEnd  == TripEnd("declare", t, bEnd, need["declare"])
        first == it.valuesPos = NotStarted
        bOk   == TripOk("begin", t, t, need["begin"])
        dOk   == TripOk("declare", t, bEnd, need["declare"])
        fAt   == IF first THEN dEnd ELSE t
        fOk   == TripOk("fetch", t, fAt, need["fetch"])
        rAt   == IF first /\ ~dOk THEN dEnd
                 ELSE TripEnd("fetch", t, fAt, need["fetch"])
        rOk   == TripOk("rollback", t, rAt, need["rollback"])
    IN  Env(bOk, dOk,
            IF fOk THEN [qerr |-> NoError, n |-> Min(cap, left),
                         scanFail |-> 0, rerr |-> NoError]
                   ELSE [qerr |-> ErrQuery, n |-> 0,
                         scanFail |-> 0, rerr |-> NoError],
            IF rOk THEN NoError ELSE ErrRollback)

\* The time the last of the timed round trips returned, or t if none.
EndOf(tl, callStart, t) ==
    IF tl = << >> THEN t
    ELSE LET l == tl[Len(tl)]
         IN  TripEnd(l.op, callStart, l.start, l.need)

\* One call of Next() on the clock.
NextTimed ==
    /\ now <= MaxTime
    /\ \E need \in [TripNames -> 1..MaxDur] :
          LET left == IF valuesPos = NotStarted THEN rowCount ELSE rowsLeft
              env  == TimedEnv(Iter, batchSize, left, now, need)
              r    == NextResult(Iter, batchSize, env, Len(txs) + 1)
              tl   == Timeline(r.ops, now, now, need)
          IN  /\ NextBody(env)
              /\ trips' = tl
              /\ now' = EndOf(tl, now, now)
    /\ UNCHANGED << ctorVars, lockVars >>

\* The caller lets a tick pass between two calls.
Idle ==
    /\ now < MaxTime
    /\ now' = now + 1
    /\ UNCHANGED << batchSize, rowCount, valuesPos, valuesMaxPos, err, tx, txs,
                    rowsLeft, declares, fetches, lastFetchRows, clean, panicked,
                    nextCalls, closeCalls, trueCount, lastCall, lastRet,
                    lastOps, lastFailed, pre, ctorVars, trips, lockVars >>

NextDeadline == NextTimed \/ Idle \/ ValueIndex \/ Error

SpecDeadline == Init /\ [][NextDeadline]_vars

\* ----------------------------------------------------------------- the lock
\* Lock() that never blocks.
CanLockAlways(p) == TRUE

\* `iter.mu.Lock()` returns only while no caller holds the mutex.
CanLock(p) == mu = 0

Methods == {"Next", "ValueIndex", "Error", "Close"}

\* The caller's step moves it to pc.
Goto(p, pc) == pcs' = [pcs EXCEPT ![p] = pc]

\* The record of the last call, which the steps of concurrent callers leave
\* alone: there is no one last call among them.
lastVars == << lastCall, lastRet, lastOps, lastFailed, pre >>

\* The variables of the iterator, the database and the history that a step
\* of a caller outside the bodies of the methods leaves alone.
core == << batchSize, rowCount, valuesPos, valuesMaxPos, err, tx, txs, rowsLeft,
          declares, fetches, lastFetchRows, clean, panicked, trueCount,
          lastCall, lastRet, lastOps, lastFailed, pre >>

\* Caller p calls method m and reaches its `iter.mu.Lock()`.
Call(p, m) ==
    /\ ~panicked
    /\ pcs[p] = "idle"
    /\ m = "Next" => nextCalls < MaxNext
    /\ m = "Close" => closeCalls < MaxClose
    /\ Goto(p, "waiting")
    /\ method' = [method EXCEPT ![p] = m]
    /\ nextCalls' = IF m = "Next" THEN nextCalls + 1 ELSE nextCalls
    /\ closeCalls' = IF m = "Close" THEN closeCalls + 1 ELSE closeCalls
    /\ UNCHANGED << core, ctorVars, timeVars, mu, pending, trueBy, torn >>

\* `iter.mu.Lock()` returns.
Lock(p) ==
    /\ pcs[p] = "waiting"
    /\ CanLock(p)
    /\ mu' = p
    /\ Goto(p, "locked")
    /\ UNCHANGED << core, nextCalls, closeCalls, ctorVars, timeVars, method,
                    pending, trueBy, torn >>

\* The body of Next() has written rows into values.
IsRefill(r) ==
    /\ OpsOf(r.ops, "fetch") # << >>
    /\ OpsOf(r.ops, "fetch")[1].res = NoError
    /\ OpsOf(r.ops, "fetch")[1].rows > 0

\* Next() under the lock, up to its writes of the iterator's fields: the
\* round trips on a failure-free database, and the rows scanned into values.
NextWork(p) ==
    /\ pcs[p] = "locked" /\ method[p] = "Next"
    /\ \E env \in Envs(valuesPos, valuesMaxPos, batchSize) :
          LET r == NextResult(Iter, batchSize, env, Len(txs) + 1)
          IN  /\ CleanOps(r.ops, env.out, batchSize)
              /\ Database(r.ops)
              /\ pending' = [pending EXCEPT ![p] = << r >>]
    /\ Goto(p, "working")
    /\ UNCHANGED << batchSize, rowCount, valuesPos, valuesMaxPos, err, tx,
                    clean, panicked, trueCount, lastVars, nextCalls, closeCalls,
                    ctorVars, timeVars, mu, method, trueBy, torn >>

\* Next() under the lock: the writes of the fields, and the return value.
NextUpdate(p) ==
    /\ pcs[p] = "working"
    /\ LET r == pending[p][1]
       IN  /\ Fields(r.it)
           /\ panicked' = r.panic
           /\ clean' = (clean /\ ~r.panic)
           /\ trueCount' = IF ~r.panic /\ r.ret THEN trueCount + 1 ELSE trueCount
           /\ trueBy' = IF ~r.panic /\ r.ret THEN trueBy \cup {p} ELSE trueBy
    /\ pending' = [pending EXCEPT ![p] = << >>]
    /\ Goto(p, "done")
    /\ UNCHANGED << batchSize, rowCount, txs, rowsLeft, declares, fetches,
                    lastFetchRows, nextCalls, closeCalls, ctorVars, timeVars,
                    mu, method, torn, lastVars >>

\* Another caller is between the scan of a batch into values and the writes
\* of valuesPos and valuesMaxPos.
MidRefill(p) ==
    \E q \in Callers \ {p} : pcs[q] = "working" /\ IsRefill(pending[q][1])

\* ValueIndex() or Error() under the lock: the read of the field.
Read(p) ==
    /\ pcs[p] = "locked" /\ method[p] \in {"ValueIndex", "Error"}
    /\ torn' = (torn \/ MidRefill(p))
    /\ Goto(p, "done")
    /\ UNCHANGED << batchSize, rowCount, valuesPos, valuesMaxPos, err, tx, txs,
                    rowsLeft, declares, fetches, lastFetchRows, clean, panicked,
                    trueCount, nextCalls, closeCalls, ctorVars, timeVars, mu,
                    method, pending, trueBy, lastVars >>

\* Close() under the lock: close() with a rollback that succeeds.
CloseBody(p) ==
    /\ pcs[p] = "locked" /\ method[p] = "Close"
    /\ LET it == close(Iter, NoError)
           ops == closeOps(Iter, NoError)
       IN  /\ Fields(it)
           /\ Database(ops)
    /\ torn' = (torn \/ MidRefill(p))
    /\ Goto(p, "done")
    /\ UNCHANGED << batchSize, rowCount, clean, panicked, trueCount, nextCalls,
                    closeCalls, ctorVars, timeVars, mu, method, pending, trueBy,
                    lastVars >>

\* `iter.mu.Unlock()`, and the return to the caller.
Unlock(p) ==
    /\ pcs[p] = "done"
    /\ mu' = 0
    /\ Goto(p, "idle")
    /\ method' = [method EXCEPT ![p] = "none"]
    /\ UNCHANGED << core, nextCalls, closeCalls, ctorVars, timeVars, pending,
                    trueBy, torn >>

Calls == \E p \in Callers, m \in Methods : Call(p, m)
Locks == \E p \in Callers : Lock(p)
NextWorks == \E p \in Callers : NextWork(p)
NextUpdates == \E p \in Callers : NextUpdate(p)
Reads == \E p \in Callers : Read(p)
CloseBodies == \E p \in Callers : CloseBody(p)
Unlocks == \E p \in Callers : Unlock(p)

NextLock ==
    Calls \/ Locks \/ NextWorks \/ NextUpdates \/ Reads \/ CloseBodies \/ Unlocks

SpecLock == Init /\ [][NextLock]_vars

\* ---------------------------------------------------------- the constructor
\* The connector argument: the nil interface, or a *pgx.Conn or *pgxpool.Pool.
Connectors == {"nil", "conn", "pool"}

\* What a values argument that is not a slice can be.
OtherKinds == {"struct", "array", "map", "ptr", "string", "int", "chan", "func"}

\* The values argument: the nil interface, a value of another kind, or a
\* slice of some length within some capacity.
ValuesArgs ==
    { [kind |-> k, len |-> 0, cap |-> 0] : k \in {"nil"} \cup OtherKinds }
    \cup UNION { { Slice(l, c) : l \in 0..c } : c \in 0..MaxBatch }

\* The loop `for i := 0; i < valuesCapacity; i++ { elem := rv.Index(i) ...`:
\* rv.Index(i) panics when i is not below the slice's length; the elements
\* of a slice are addressable and their pointers can be interfaces, so the
\* two errors of the loop do not occur.
RECURSIVE IndexLoop(_, _)
IndexLoop(i, v) ==
    IF i >= v.cap THEN "done"
    ELSE IF i >= v.len THEN "panic"
    ELSE IndexLoop(i + 1, v)

\* NewCursorIterator(ctx, c, v, ...): the error returned, or the iterator
\* with its batch size, or a panic.  reflect.ValueOf of a non-nil interface
\* is valid, so `values is invalid` is not returned.
NewCursorIterator(c, v) ==
    LET rejected(e) == [kind |-> "error", err |-> e]
    IN  IF c = "nil" THEN rejected(ErrConnectorNil)
        ELSE IF v.kind = "nil" THEN rejected(ErrValuesNil)
        ELSE IF v.kind # "slice" THEN rejected(ErrNotSlice)
        ELSE IF v.cap <= 0 THEN rejected(ErrCapacity)
        ELSE IF IndexLoop(0, v) = "panic" THEN [kind |-> "panic"]
        ELSE [kind |-> "iterator", batchSize |-> v.cap,
              it |-> [valuesPos |-> NotStarted, valuesMaxPos |-> v.cap - 1,
                      err |-> NoError, tx |-> NilTx]]

\* No iterator exists yet: the caller has chosen the arguments.
InitNew ==
    /\ connector \in Connectors
    /\ values \in ValuesArgs
    /\ newErr = NoError
    /\ now = 0
    /\ trips = << >>
    /\ NoCallers
    /\ batchSize = 0
    /\ rowCount = 0
    /\ valuesPos = 0
    /\ valuesMaxPos = 0
    /\ err = NoError
    /\ tx = NilTx
    /\ txs = << >>
    /\ rowsLeft = 0
    /\ declares = 0
    /\ fetches = 0
    /\ lastFetchRows = 0
    /\ clean = TRUE
    /\ panicked = FALSE
    /\ nextCalls = 0
    /\ closeCalls = 0
    /\ trueCount = 0
    /\ lastCall = "none"
    /\ lastRet = NoError
    /\ lastOps = << >>
    /\ lastFailed = FALSE
    /\ pre = Iter

\* The call of NewCursorIterator.
New ==
    /\ lastCall = "none"
    /\ LET r == NewCursorIterator(connector, values)
       IN  /\ Fields(IF r.kind = "iterator" THEN r.it ELSE Iter)
           /\ batchSize' = IF r.kind = "iterator" THEN r.batchSize ELSE batchSize
           /\ newErr' = IF r.kind = "error" THEN r.err ELSE NoError
           /\ panicked' = (r.kind = "panic")
           /\ lastRet' = IF r.kind = "panic" THEN "panic" ELSE newErr'
    /\ lastCall' = "NewCursorIterator"
    /\ lastOps' = << >>
    /\ lastFailed' = FALSE
    /\ pre' = Iter
    /\ UNCHANGED << connector, values, rowCount, txs, rowsLeft, declares,
                    fetches, lastFetchRows, clean, nextCalls, closeCalls,
                    trueCount, timeVars, lockVars >>

\* The caller got an iterator and reads it.
Observe ==
    /\ batchSize > 0
    /\ (ValueIndex \/ Error)

NextNew == New \/ Observe

SpecNew == InitNew /\ [][NextNew]_vars

\* One call of Next() over a database on which every statement succeeds and
\* each FETCH delivers some number of rows up to the batch size, whatever it
\* delivered before.
NextRows ==
    \E env \in Envs(valuesPos, valuesMaxPos, batchSize) :
        /\ env.beginOk /\ env.declOk /\ env.rbErr = NoError
        /\ env.out.qerr \in {NoError, "no_rows"}
        /\ env.out.scanFail = 0 /\ env.out.rerr = NoError
        /\ env.out.n <= batchSize
        /\ NextCall(env)

InitRows == InitOf(MaxRowsBatch)

NextOfRows == NextRows \/ ValueIndex \/ Error

SpecRows == InitRows /\ [][NextOfRows]_vars

TypeOK ==
    /\ batchSize \in 0..(IF MaxRowsBatch > MaxBatch THEN MaxRowsBatch ELSE MaxBatch)
    /\ now \in 0..(MaxTime + 4 * MaxDur)
    /\ mu \in {0} \cup Callers
    /\ torn \in BOOLEAN
    /\ rowCount \in 0..MaxRows
    /\ valuesPos \in -2..(MaxBatch + MaxExtra)
    /\ tx \in 0..MaxNext
    /\ panicked \in BOOLEAN

\* ---------------------------------------------------------------- claims
\* The caller has only iterated, and the database has never failed.
FailureFree == clean /\ closeCalls = 0

\* C1: with a failure-free database of R rows, for every batchSize, the
\* Next() calls return true exactly R times, the (R+1)-th and every later
\* call returns false, and Error() is nil after each call.
C1_NextTrueExactlyR ==
    FailureFree =>
        /\ trueCount = Min(nextCalls, rowCount)
        /\ err = NoError
        /\ lastCall = "Next" => lastRet = (nextCalls <= rowCount)

\* C1 witness: a failure-free run of several batches, two calls past the end.
C1_Witness ==
    /\ FailureFree
    /\ rowCount = 3 /\ batchSize = 2
    /\ nextCalls = rowCount + 2
    /\ lastCall = "Next" /\ lastRet = FALSE
    /\ trueCount = rowCount

\* C2: with a failure-free database, ValueIndex() is -2 before the first
\* Next(), (k-1) mod batchSize after the k-th Next() that returned true, and
\* -1 after the Next() that returned false.
C2_ValueIndexSequence ==
    FailureFree =>
        /\ valuesPos = IF nextCalls = 0 THEN -2
                       ELSE IF nextCalls <= rowCount
                       THEN (nextCalls - 1) % batchSize
                       ELSE -1
        /\ lastCall = "ValueIndex" => lastRet = valuesPos

\* C2 witness: ValueIndex() reads 0 right after the refill that follows a
\* full batch of two rows.
C2_Witness ==
    /\ FailureFree
    /\ batchSize = 2 /\ rowCount = 3 /\ nextCalls = 3
    /\ lastCall = "ValueIndex" /\ lastRet = 0
    /\ pre.valuesPos = 0 /\ fetches = 2

\* C3: a Next() call during which a run-time failure of a database
\* operation is recorded returns false.
C3_FailedNextReturnsFalse ==
    (lastCall = "Next" /\ lastFailed) => lastRet = FALSE

\* C4: after Close(), from whatever state it was called in, ValueIndex() is
\* -1 and every later Next() returns false without any database operation.
C4_CloseExhausts ==
    /\ lastCall = "Close" => valuesPos = Exhausted
    /\ (lastCall = "Next" /\ closeCalls > 0) =>
          (~panicked /\ lastRet = FALSE /\ lastOps = << >>)

\* The call made the FETCH and tx.Query returned an error other than no-rows.
QueryFailed(ops) ==
    \E i \in 1..Len(ops) : ops[i].op = "fetch" /\ ops[i].res = ErrQuery

\* C5: when the FETCH statement fails transiently, in the first Next() or
\* in a later refill, the iterator records the error, is not exhausted and
\* keeps its transaction, and the very next Next() re-executes FETCH in the
\* same transaction with no new Begin and no new DECLARE, returning true at
\* position 0 if that fetch delivers rows.
C5_RetrySameStep ==
    /\ [](lastCall = "Next" /\ QueryFailed(lastOps) =>
            err = ErrQuery /\ valuesPos # Exhausted /\ tx # NilTx)
    /\ [][ (lastCall = "Next" /\ QueryFailed(lastOps) /\ nextCalls' = nextCalls + 1) =>
             /\ OpsOf(lastOps', "begin") = << >>
             /\ OpsOf(lastOps', "declare") = << >>
             /\ Len(OpsOf(lastOps', "fetch")) = 1
             /\ OpsOf(lastOps', "fetch")[1].tx = tx
             /\ ( /\ Len(lastOps') = 1
                  /\ lastOps'[1].res = NoError /\ lastOps'[1].rows >= 1
                  /\ ~lastFailed' /\ ~panicked' )
                    => (lastRet' = TRUE /\ valuesPos' = 0 /\ tx' = tx) ]_vars

\* C6: over the lifetime of one iterator DECLARE is executed at most once
\* and at most one transaction is successfully begun.
C6_OneDeclareOneBegin ==
    declares <= 1 /\ Len(txs) <= 1

\* C7: once Error() is non-nil it stays non-nil over any further Next(),
\* ValueIndex() and Error() calls.
C7_ErrorSticky ==
    (lastCall \in {"Next", "ValueIndex", "Error"} /\ pre.err # NoError)
        => err # NoError

\* C8: once the position is -1, no Next(), Close(), ValueIndex() or Error()
\* call changes the position, opens a transaction, makes a database round
\* trip or makes Next() return true.
C8_ExhaustedTerminal ==
    pre.valuesPos = Exhausted =>
        /\ valuesPos = Exhausted
        /\ tx = NilTx
        /\ lastOps = << >>
        /\ lastCall = "Next" => (~panicked /\ lastRet = FALSE)

\* C8 witness: Next() called on an iterator that a fatal error exhausted and
\* that was closed after that.
C8_Witness ==
    /\ pre.valuesPos = Exhausted
    /\ lastCall = "Next" /\ lastRet = FALSE
    /\ closeCalls = 1 /\ fetches >= 1 /\ ~clean

\* C9: Close() with a transaction open makes exactly one rollback, of that
\* transaction, then the handle is nil and the position -1 whether or not
\* the rollback succeeded; the rollback's outcome is the iterator's error
\* and the value returned; the following Next() returns false.
C9_CloseRollsBack ==
    /\ (lastCall = "Close" /\ pre.tx # NilTx) =>
          /\ Len(lastOps) = 1
          /\ lastOps[1].op = "rollback" /\ lastOps[1].tx = pre.tx
          /\ tx = NilTx
          /\ valuesPos = Exhausted
          /\ err = lastOps[1].res
          /\ lastRet = err
          /\ txs[pre.tx] # "open"
    /\ (lastCall = "Next" /\ pre.valuesPos = Exhausted /\ closeCalls > 0) =>
          (~panicked /\ lastRet = FALSE)

\* C9 witness: Close() in the middle of a batch with unread rows left, and
\* the rollback fails.
C9_Witness ==
    /\ lastCall = "Close"
    /\ pre.tx # NilTx
    /\ pre.valuesPos = 0 /\ pre.valuesMaxPos >= 2
    /\ lastRet = ErrRollback
    /\ valuesPos = Exhausted /\ tx = NilTx

\* ceil(a / b) for b > 0.
CeilDiv(a, b) == (a + b - 1) \div b

\* C10: with R not a multiple of batchSize, iterating until Next() returns
\* false executes exactly ceil(R / batchSize) FETCH statements, the last of
\* which returns R mod batchSize rows.
C10_FetchCount ==
    (FailureFree /\ rowCount % batchSize # 0 /\ valuesPos = Exhausted) =>
        /\ fetches = CeilDiv(rowCount, batchSize)
        /\ lastFetchRows = rowCount % batchSize

\* The FETCH of the last call, if it made one that tx.Query did not fail.
LastFetch == OpsOf(lastOps, "fetch")

\* The last call ended as a fatal failure recorded as e: one rollback of the
\* transaction it held, no transaction, position -1, false returned, and e
\* (not the rollback's result) as the error.
FatalWith(e) ==
    /\ ~panicked
    /\ lastRet = FALSE
    /\ tx = NilTx
    /\ valuesPos = Exhausted
    /\ Len(OpsOf(lastOps, "rollback")) = 1
    /\ err \in e

\* C13: a cursor declaration failure, a row decode failure, more rows than
\* batchSize or a terminal row-sequence error rolls the transaction back,
\* sets the handle to nil and the position to -1 and makes that Next()
\* return false; Error() is then the specific failure, not the rollback's
\* result, and every later Next() returns false.
C13_FatalFailures ==
    /\ (lastCall = "Next" /\ OpsOf(lastOps, "declare") # << >>
                          /\ OpsOf(lastOps, "declare")[1].res # NoError)
          => FatalWith({ErrDeclare})
    /\ (lastCall = "Next" /\ LastFetch # << >> /\ LastFetch[1].res = NoError
                          /\ LastFetch[1].rows > batchSize)
          => FatalWith({ErrTooManyRows, ErrScan})
    /\ (lastCall = "Next" /\ lastFailed /\ err \in {ErrScan, ErrFetchRows})
          => FatalWith({ErrScan, ErrFetchRows})
    /\ (lastCall = "Next" /\ pre.valuesPos = Exhausted)
          => (~panicked /\ lastRet = FALSE)

\* C15: on every refill, whatever the size of the previous batch, more than
\* batchSize rows close the iterator, exhaust it and record "database
\* returned more rows than expected" (unless a row before failed to decode),
\* and 1..batchSize rows never record that error.
C15_TooManyRowsGuard ==
    (lastCall = "Next" /\ LastFetch # << >> /\ LastFetch[1].res = NoError) =>
        /\ LastFetch[1].rows > batchSize =>
              (~panicked /\ valuesPos = Exhausted /\ tx = NilTx
                         /\ err \in {ErrTooManyRows, ErrScan})
        /\ LastFetch[1].rows \in 1..batchSize =>
              (~panicked /\ err # ErrTooManyRows)

\* C17: between operations the transaction handle is nil whenever the
\* position is -2 or -1 and non-nil whenever it is a valid slot.
C17_TxIffPositioned ==
    /\ valuesPos \in {NotStarted, Exhausted} => tx = NilTx
    /\ valuesPos >= 0 => tx # NilTx

\* C18: ValueIndex() is -2, -1 or an index below the rows of the latest
\* refill, which are at most batchSize, and no refill indexes a slot outside
\* [0, batchSize): no call ends in an index-out-of-range panic.
C18_PositionInBuffer ==
    /\ \/ valuesPos \in {NotStarted, Exhausted}
       \/ (0 <= valuesPos /\ valuesPos < valuesMaxPos /\ valuesMaxPos <= batchSize)
    /\ ~panicked

\* The transactions begun and not rolled back.
OpenTxs == { i \in 1..Len(txs) : txs[i] = "open" }

\* C19: every transaction begun is rolled back once, the iterator never owns
\* more than one transaction that is not rolled back, a drained cursor is
\* rolled back inside that Next(), and an exhausted iterator has left no
\* transaction open.
C19_TransactionsRolledBack ==
    /\ Cardinality(OpenTxs) <= 1
    /\ OpenTxs \subseteq {tx}
    /\ valuesPos = Exhausted => OpenTxs = {}
    /\ (lastCall = "Next" /\ pre.tx # NilTx /\ valuesPos = Exhausted
           /\ pre.valuesPos # Exhausted)
          => (Len(OpsOf(lastOps, "rollback")) = 1 /\ txs[pre.tx] # "open")

\* The rows of the current batch that Next() has not handed out yet.
Unread == valuesMaxPos - 1 - valuesPos

\* C14: when connector.Begin fails in Next(), that call returns false,
\* Error() is the wrapped "unable to start transaction" error, the iterator
\* stays not started with no transaction, and the call issues no DECLARE and
\* no FETCH; once Begin succeeds, the following calls iterate all R rows from
\* the first one: the calls that returned true count the rows handed out, and
\* the iterator ends exhausted without error after exactly R of them.
C14_BeginFailureRetry ==
    /\ (lastCall = "Next" /\ lastOps # << >> /\ lastOps[1].op = "begin"
                          /\ lastOps[1].res # NoError)
          => /\ ~panicked /\ lastRet = FALSE
             /\ err = ErrBegin
             /\ valuesPos = NotStarted
             /\ tx = NilTx
             /\ Len(lastOps) = 1
             /\ trueCount = 0
    /\ valuesPos = NotStarted => (trueCount = 0 /\ declares = 0 /\ fetches = 0)
    /\ valuesPos >= 0 =>
          /\ trueCount = rowCount - rowsLeft - Unread
          /\ err = NoError
          /\ declares = 1
    /\ valuesPos = Exhausted => (trueCount = rowCount /\ err = NoError)
    /\ ~panicked

\* C14 witness: Begin failed at least once, and the iterator then handed out
\* all three rows in two batches and reported the end.
C14_Witness ==
    /\ ~clean
    /\ rowCount = 3 /\ batchSize = 2
    /\ valuesPos = Exhausted
    /\ trueCount = rowCount
    /\ lastCall = "Next" /\ ~panicked /\ lastRet = FALSE
    /\ err = NoError

\* C16: a refill that returns n rows with 1 <= n < batchSize does not exhaust
\* the iterator: Next() returns true, positioned at 0 with the transaction
\* open and no error; a Next() that finds the batch consumed issues another
\* FETCH; and Next() leaves the iterator exhausted without error only when
\* its FETCH delivered no row or reported no-rows.
C16_ShortBatchKeepsOpen ==
    /\ (lastCall = "Next" /\ LastFetch # << >> /\ LastFetch[1].res = NoError
                          /\ LastFetch[1].rows \in 1..(batchSize - 1))
          => (~panicked /\ lastRet = TRUE /\ valuesPos = 0 /\ tx # NilTx
                        /\ err = NoError)
    /\ (lastCall = "Next" /\ pre.valuesPos >= 0
                          /\ pre.valuesPos + 1 >= pre.valuesMaxPos)
          => Len(LastFetch) = 1
    /\ (lastCall = "Next" /\ pre.valuesPos # Exhausted
                          /\ valuesPos = Exhausted /\ err = NoError)
          => (Len(LastFetch) = 1 /\ (LastFetch[1].rows = 0
                                       \/ LastFetch[1].res = "no_rows"))

\* NewCursorIterator returned no iterator and the error e.
Rejected(e) == ~panicked /\ newErr = e /\ batchSize = 0

\* C11: NewCursorIterator checks its inputs in the order connector nil,
\* values nil, values not a slice, capacity <= 0, and on the first failing
\* check returns no iterator and that check's error; the four messages are
\* pairwise distinct; when all checks pass it returns an iterator that is not
\* started, has no error and no transaction, whose batchSize is the capacity
\* of values, and no database operation has been made.
C11_ConstructorChecks ==
    /\ Cardinality({ErrConnectorNil, ErrValuesNil, ErrNotSlice, ErrCapacity}) = 4
    /\ lastCall = "NewCursorIterator" =>
          IF connector = "nil" THEN Rejected(ErrConnectorNil)
          ELSE IF values.kind = "nil" THEN Rejected(ErrValuesNil)
          ELSE IF values.kind # "slice" THEN Rejected(ErrNotSlice)
          ELSE IF values.cap <= 0 THEN Rejected(ErrCapacity)
          ELSE /\ ~panicked
               /\ newErr = NoError
               /\ batchSize = values.cap
               /\ valuesPos = NotStarted
               /\ err = NoError
               /\ tx = NilTx
               /\ txs = << >> /\ declares = 0 /\ fetches = 0 /\ lastOps = << >>

\* C12: every round trip of a call (Begin, DECLARE, FETCH, Rollback) runs
\* under a deadline created when that round trip starts, one
\* maxDatabaseExecutionTime later, so a round trip that itself needs no more
\* than maxDatabaseExecutionTime succeeds whatever time earlier round trips
\* or the caller's pauses took.
C12_OwnDeadlines ==
    \A i \in 1..Len(trips) :
        /\ trips[i].deadline = trips[i].start + ExecTime
        /\ trips[i].need <= ExecTime => trips[i].ok

\* The callers inside a critical section: between Lock() and Unlock().
InCritical == { p \in Callers : pcs[p] \in {"locked", "working", "done"} }

\* C20: with several callers invoking Next(), ValueIndex(), Error() and
\* Close() concurrently, at most one caller is inside a critical section at a
\* time, no caller reads or closes the iterator while another is between the
\* scan of a batch and the update of the position, and on a failure-free
\* database of R rows without Close() the Next() calls of all callers return
\* true R times in total: never more, and R once the iterator is exhausted.
C20_Serialized ==
    /\ Cardinality(InCritical) <= 1
    /\ InCritical \subseteq {mu}
    /\ ~torn
    /\ ~panicked
    /\ trueCount <= rowCount
    /\ (closeCalls = 0 /\ valuesPos = Exhausted) => trueCount = rowCount

\* C20 witness: two callers shared the iteration of three rows in two
\* batches to its end, and one waits for the lock while the other, whose
\* Next() found the cursor empty, still holds it.
C20_Witness ==
    /\ closeCalls = 0
    /\ rowCount = 3 /\ batchSize = 2
    /\ valuesPos = Exhausted
    /\ trueCount = rowCount
    /\ trueBy = {1, 2}
    /\ pcs[2] = "done" /\ method[2] = "Next" /\ mu = 2
    /\ ~panicked
    /\ pcs[1] = "waiting"

\* C21: Close() is idempotent: a Close() that directly follows a Close(),
\* whatever state the first was called in and whatever its rollback did,
\* leaves ValueIndex(), Error() and the transaction handle as the first left
\* them, and makes no database round trip.
C21_CloseIdempotent ==
    [][ (~panicked /\ lastCall = "Close" /\ lastCall' = "Close"
                   /\ closeCalls' = closeCalls + 1)
          => /\ valuesPos' = valuesPos
             /\ err' = err
             /\ tx' = tx
             /\ lastOps' = << >> ]_vars

====
